---- MODULE Spec2Model ----
(***************************************************************************)
(* Model of memory-mcp.js: a stdio JSON-RPC adapter.  Each stdin line is   *)
(* handled by an async "line" listener that either answers from the static *)
(* CAPABILITIES descriptor or forwards the request to an HTTP backend with *)
(* fetch and relays the reply.  The listener is async and readline does    *)
(* not wait for it, so several handlers can be suspended at `await fetch`  *)
(* at once.                                                                *)
(***************************************************************************)
EXTENDS Integers, Sequences, FiniteSets, TLC

VARIABLES
    env,        \* process.env: MCP_MEMORY_TOKEN and MCP_MEMORY_URL
    lines,      \* the stdin lines readline has emitted so far, in order
    inflight,   \* handlers suspended at `await fetch(...)` (their closures)
    calls,      \* every fetch() the process has issued, in order
    written,    \* every process.stdout/process.stderr write, in order
    replies,    \* what each settled fetch gave its handler: status and body
                \* text, or the rejection (history)
    rlOpen      \* stdin has not reached end of input

vars == <<env, lines, inflight, calls, written, replies, rlOpen>>

-----------------------------------------------------------------------------
(* Bounds *)

\* number of stdin events in a run: the lines and the end of input
MaxInput == 2

-----------------------------------------------------------------------------
(* JavaScript / JSON values.  A value is a record tagged by its typeof-like *)
(* kind; an object keeps its members as an ordered sequence of <<key,val>>. *)

Undefined == [k |-> "undefined"]
JNull     == [k |-> "null"]
JTrue     == [k |-> "boolean", b |-> TRUE]
JNum(n)   == [k |-> "number", n |-> n]
JStr(s)   == [k |-> "string", s |-> s]
JArr(a)   == [k |-> "array", a |-> a]
JObj(o)   == [k |-> "object", o |-> o]

\* obj.key for an object value: the member's value, undefined when missing.
\* For the other non-null kinds a property read of these keys is undefined.
Prop(v, key) ==
    IF v.k = "object" /\ \E i \in 1..Len(v.o) : v.o[i][1] = key
    THEN LET i == CHOOSE j \in 1..Len(v.o) : v.o[j][1] = key IN v.o[i][2]
    ELSE Undefined

\* Reading a property of null or undefined throws a TypeError.
PropThrows(v) == v.k \in {"null", "undefined"}

\* faulty variant: a test for a defined value (token !== undefined)
TruthyOfDefined(v) == v.k \notin {"undefined", "null"}

\* JavaScript truthiness of a value.
Truthy(v) ==
    CASE v.k = "undefined" -> FALSE
      [] v.k = "null"      -> FALSE
      [] v.k = "boolean"   -> v.b
      [] v.k = "number"    -> v.n # 0
      [] v.k = "string"    -> v.s # ""
      [] OTHER             -> TRUE

\* a === b: primitives compare by type and value, objects and arrays by
\* reference (two separately built or parsed ones are never identical).
StrictEq(a, b) ==
    /\ a.k \notin {"object", "array"}
    /\ a = b

RECURSIVE DropUndefined(_)
DropUndefined(o) ==
    IF o = <<>> THEN <<>>
    ELSE IF Head(o)[2] = Undefined THEN DropUndefined(Tail(o))
         ELSE <<Head(o)>> \o DropUndefined(Tail(o))

\* A text is a record: kind "json" with the value the text denotes, or a
\* kind that JSON.parse rejects.
\* JSON.stringify(v): members whose value is undefined are left out of the
\* text.  (Only top-level members can be undefined in this program; nested
\* values are constants or come out of JSON.parse.)
Stringify(v) ==
    [kind |-> "json",
     v    |-> IF v.k = "object" THEN JObj(DropUndefined(v.o)) ELSE v]

\* JSON.parse(text): the value, or a SyntaxError.
ParseThrows(text) == text.kind # "json"
Parse(text) == text.v

\* line.trim() is empty
IsBlank(text) == text.kind = "blank"

\* a fetch that rejected gives no response, hence no status
NoStatus == 0

\* a fetch that rejected gives no text but the cause of the rejection
Rejection(cause) == [kind |-> "reject", v |-> JStr(cause)]

Garbage == [kind |-> "garbage", v |-> Undefined]
Blank   == [kind |-> "blank", v |-> Undefined]

-----------------------------------------------------------------------------
(* The static descriptor.  Each entry keeps the member the handler and the  *)
(* clients key on (name, uri, uriTemplate); descriptions and input schemas  *)
(* are constant text carried along unchanged and are left out.              *)

DEFAULT_URL == "https://agent.idsolutions.id/api/v1/mcp/memory"

Named(key, s) == JObj(<< <<key, JStr(s)>> >>)

\* faulty variant: only the first operation of each group advertised
FlagsFirstOnly(keys) == JObj(<< <<keys[1], JTrue>> >>)

Flags(keys) == JObj([i \in 1..Len(keys) |-> <<keys[i], JTrue>>])

CAPABILITIES ==
    [capabilities |->
        JObj(<< <<"resources", Flags(<<"list", "read", "templates">>)>>,
                <<"tools",     Flags(<<"list", "call">>)>>,
                <<"prompts",   Flags(<<"list", "get">>)>> >>),
     serverInfo |->
        JObj(<< <<"name", JStr("@vheins/memory-mcp")>>,
                <<"version", JStr("1.0.0")>> >>),
     result |->
        [prompts |->
            << Named("name", "memory-agent-core"),
               Named("name", "memory-index-policy"),
               Named("name", "tool-usage-guidelines") >>,
         tools |->
            << Named("name", "memory-write"),
               Named("name", "memory-update"),
               Named("name", "memory-delete"),
               Named("name", "memory-search"),
               Named("name", "memory-link"),
               Named("name", "memory-bulk-write"),
               Named("name", "memory-vector-search"),
               Named("name", "memory-audit"),
               Named("name", "memory-index") >>,
         resources |->
            << Named("uri", "memory://index"),
               Named("uri", "memory://123e4567-e89b-12d3-a456-426614174000"),
               Named("uri", "docs://getting-started"),
               Named("uri", "schema://mcp") >>,
         resourceTemplates |->
            << Named("uriTemplate", "memory://index"),
               Named("uriTemplate", "memory://{id}"),
               Named("uriTemplate", "memory://{id}/history"),
               Named("uriTemplate", "docs://{slug}"),
               Named("uriTemplate", "schema://mcp") >>]]

-----------------------------------------------------------------------------
(* Writes *)

\* process.stdout.write(JSON.stringify(v) + "\n") by the handler of line req
Out(req, v) == [chan |-> "stdout", req |-> req, text |-> Stringify(v)]

\* process.stderr.write(m) by the handler of line req
Err(req, m) == [chan |-> "stderr", req |-> req,
                text |-> [kind |-> "diag", v |-> JStr(m)]]

\* { jsonrpc: "2.0", id, <member>: value }
Envelope(id, member, value) ==
    JObj(<< <<"jsonrpc", JStr("2.0")>>, <<"id", id>>, <<member, value>> >>)

\* { code, message }
ErrorObject(code, message) ==
    JObj(<< <<"code", JNum(code)>>, <<"message", JStr(message)>> >>)

\* the notification sent after the initialize response
InitializedNotification ==
    JObj(<< <<"jsonrpc", JStr("2.0")>>,
            <<"method", JStr("notifications/initialized")>>,
            <<"params", JObj(<<>>)>> >>)

\* faulty variant: an assignment in the predicate (e[key] = wanted), which is
\* truthy for every entry whenever wanted is
FindAssigning(array, key, wanted) ==
    IF Truthy(wanted) THEN JObj(<< <<key, wanted>> >>) ELSE Undefined

\* array.find(e => e[key] === wanted): the first match, undefined when none
Find(array, key, wanted) ==
    IF \E i \in 1..Len(array) : StrictEq(Prop(array[i], key), wanted)
    THEN array[CHOOSE i \in 1..Len(array) :
                 /\ StrictEq(Prop(array[i], key), wanted)
                 /\ \A j \in 1..(i-1) : ~StrictEq(Prop(array[j], key), wanted)]
    ELSE Undefined

\* faulty variant: the key read from the message itself, not from its params
ParamOfMessage(msg, key) == Prop(msg, key)

\* msg.params && msg.params.<key>
ParamOf(msg, key) ==
    LET params == Prop(msg, "params")
    IN  IF Truthy(params) THEN Prop(params, key) ELSE params

-----------------------------------------------------------------------------
(* rl.on("line"): the local branches of the handler.  Each operator gives   *)
(* the writes of one branch for the message msg of line number req.         *)

\* faulty variant: a once-only handshake, the notification being sent for
\* the first initialize of the run alone
InitializeWritesOnce(req, msg) ==
    IF \E i \in 1..Len(written) :
          /\ written[i].chan = "stdout"
          /\ written[i].text = Stringify(InitializedNotification)
    THEN << Out(req, Envelope(Prop(msg, "id"), "result",
                  JObj(<< <<"capabilities", CAPABILITIES.capabilities>>,
                          <<"serverInfo", CAPABILITIES.serverInfo>>,
                          <<"protocolVersion", JStr("2024-11-05")>> >>))) >>
    ELSE << Out(req, Envelope(Prop(msg, "id"), "result",
                  JObj(<< <<"capabilities", CAPABILITIES.capabilities>>,
                          <<"serverInfo", CAPABILITIES.serverInfo>>,
                          <<"protocolVersion", JStr("2024-11-05")>> >>))),
            Out(req, InitializedNotification) >>

\* faulty variant: the initialize branch without the notification
InitializeWritesNoNotification(req, msg) ==
    << Out(req, Envelope(Prop(msg, "id"), "result",
                  JObj(<< <<"capabilities", CAPABILITIES.capabilities>>,
                          <<"serverInfo", CAPABILITIES.serverInfo>>,
                          <<"protocolVersion", JStr("2024-11-05")>> >>))) >>

\* if (msg.method === "initialize"): the response, then the notification
InitializeWrites(req, msg) ==
    << Out(req, Envelope(Prop(msg, "id"), "result",
                  JObj(<< <<"capabilities", CAPABILITIES.capabilities>>,
                          <<"serverInfo", CAPABILITIES.serverInfo>>,
                          <<"protocolVersion", JStr("2024-11-05")>> >>))),
       Out(req, InitializedNotification) >>

\* faulty variant: the list branches answering without the id
ListWritesWithoutId(req, msg, member, array) ==
    << Out(req, Envelope(Undefined, "result",
                         JObj(<< <<member, JArr(array)>> >>))) >>

\* faulty variant: the list branches taking the entries out of the descriptor
\* (array.splice), so that a second listing of the same member is empty
ListWritesConsuming(req, msg, member, array) ==
    IF \E i \in 1..Len(written) :
          /\ written[i].chan = "stdout"
          /\ Prop(Prop(Parse(written[i].text), "result"), member) # Undefined
    THEN << Out(req, Envelope(Prop(msg, "id"), "result",
                              JObj(<< <<member, JArr(<<>>)>> >>))) >>
    ELSE << Out(req, Envelope(Prop(msg, "id"), "result",
                              JObj(<< <<member, JArr(array)>> >>))) >>

\* faulty variant: the list branches refusing to answer without a credential
ListWritesGated(req, msg, member, array) ==
    IF Truthy(env.MCP_MEMORY_TOKEN)
    THEN << Out(req, Envelope(Prop(msg, "id"), "result",
                              JObj(<< <<member, JArr(array)>> >>))) >>
    ELSE << Out(req, Envelope(Prop(msg, "id"), "error",
                ErrorObject(-32000,
                    "MCP_MEMORY_TOKEN is required but missing from environment"))) >>

\* the list branches: { jsonrpc, id: msg.id, result: { <member>: <array> } }
ListWrites(req, msg, member, array) ==
    << Out(req, Envelope(Prop(msg, "id"), "result",
                         JObj(<< <<member, JArr(array)>> >>))) >>

\* prompts/get and resources/read when the static entry was found
FoundWrites(req, msg, member, entry) ==
    << Out(req, Envelope(Prop(msg, "id"), "result",
                         JObj(<< <<member, entry>> >>))) >>

\* faulty variant: the dispatch without the notifications/initialized branch,
\* so that the notification reaches the forward
DispatchWithoutNoOp(req, msg) ==
    LET method   == Prop(msg, "method")
        prompt   == Find(CAPABILITIES.result.prompts, "name", ParamOf(msg, "name"))
        resource == Find(CAPABILITIES.result.resources, "uri", ParamOf(msg, "uri"))
        Local(w) == [route |-> "local", writes |-> w]
    IN  CASE method = JStr("initialize") ->
                Local(InitializeWrites(req, msg))
          [] method = JStr("tools/list") ->
                Local(ListWrites(req, msg, "tools", CAPABILITIES.result.tools))
          [] method = JStr("resources/templates/list") ->
                Local(ListWrites(req, msg, "resourceTemplates",
                                 CAPABILITIES.result.resourceTemplates))
          [] method = JStr("prompts/list") ->
                Local(ListWrites(req, msg, "prompts", CAPABILITIES.result.prompts))
          [] method = JStr("prompts/get") /\ Truthy(prompt) ->
                Local(FoundWrites(req, msg, "prompt", prompt))
          [] method = JStr("resources/list") ->
                Local(ListWrites(req, msg, "resources", CAPABILITIES.result.resources))
          [] method = JStr("resources/read") /\ Truthy(resource) ->
                Local(FoundWrites(req, msg, "resource", resource))
          [] OTHER ->
                [route |-> "forward", writes |-> <<>>]

\* faulty variant: a dispatch that looks at the credential first and sends
\* everything but initialize to the forward when there is none
DispatchCredentialFirst(req, msg) ==
    LET method   == Prop(msg, "method")
        prompt   == Find(CAPABILITIES.result.prompts, "name", ParamOf(msg, "name"))
        resource == Find(CAPABILITIES.result.resources, "uri", ParamOf(msg, "uri"))
        Local(w) == [route |-> "local", writes |-> w]
    IN  CASE method = JStr("initialize") ->
                Local(InitializeWrites(req, msg))
          [] ~Truthy(env.MCP_MEMORY_TOKEN) ->
                [route |-> "forward", writes |-> <<>>]
          [] method = JStr("notifications/initialized") ->
                Local(<<>>)
          [] method = JStr("tools/list") ->
                Local(ListWrites(req, msg, "tools", CAPABILITIES.result.tools))
          [] method = JStr("resources/templates/list") ->
                Local(ListWrites(req, msg, "resourceTemplates",
                                 CAPABILITIES.result.resourceTemplates))
          [] method = JStr("prompts/list") ->
                Local(ListWrites(req, msg, "prompts", CAPABILITIES.result.prompts))
          [] method = JStr("prompts/get") /\ Truthy(prompt) ->
                Local(FoundWrites(req, msg, "prompt", prompt))
          [] method = JStr("resources/list") ->
                Local(ListWrites(req, msg, "resources", CAPABILITIES.result.resources))
          [] method = JStr("resources/read") /\ Truthy(resource) ->
                Local(FoundWrites(req, msg, "resource", resource))
          [] OTHER ->
                [route |-> "forward", writes |-> <<>>]

\* The method dispatch of the handler, for a msg whose property reads do not
\* throw: route "local" with the branch's writes, or "forward".
Dispatch(req, msg) ==
    LET method   == Prop(msg, "method")
        prompt   == Find(CAPABILITIES.result.prompts, "name", ParamOf(msg, "name"))
        resource == Find(CAPABILITIES.result.resources, "uri", ParamOf(msg, "uri"))
        Local(w) == [route |-> "local", writes |-> w]
    IN  CASE method = JStr("initialize") ->
                Local(InitializeWrites(req, msg))
          [] method = JStr("notifications/initialized") ->
                Local(<<>>)
          [] method = JStr("tools/list") ->
                Local(ListWrites(req, msg, "tools", CAPABILITIES.result.tools))
          [] method = JStr("resources/templates/list") ->
                Local(ListWrites(req, msg, "resourceTemplates",
                                 CAPABILITIES.result.resourceTemplates))
          [] method = JStr("prompts/list") ->
                Local(ListWrites(req, msg, "prompts", CAPABILITIES.result.prompts))
          [] method = JStr("prompts/get") /\ Truthy(prompt) ->
                Local(FoundWrites(req, msg, "prompt", prompt))
          [] method = JStr("resources/list") ->
                Local(ListWrites(req, msg, "resources", CAPABILITIES.result.resources))
          [] method = JStr("resources/read") /\ Truthy(resource) ->
                Local(FoundWrites(req, msg, "resource", resource))
          [] OTHER ->
                [route |-> "forward", writes |-> <<>>]

-----------------------------------------------------------------------------
(* forwardToMCP(method, params, id) *)

\* faulty variant: the envelope written first, the diagnostic after it
MissingTokenWritesEnvelopeFirst(req, id) ==
    << Out(req, Envelope(id, "error",
                ErrorObject(-32000,
                    "MCP_MEMORY_TOKEN is required but missing from environment"))),
       Err(req, "FATAL: MCP_MEMORY_TOKEN is missing in environment") >>

\* if (!token): the FATAL diagnostic, then the -32000 error envelope
MissingTokenWrites(req, id) ==
    << Err(req, "FATAL: MCP_MEMORY_TOKEN is missing in environment"),
       Out(req, Envelope(id, "error",
                ErrorObject(-32000,
                    "MCP_MEMORY_TOKEN is required but missing from environment"))) >>

\* faulty variant: the default URL used only when the variable is unset
\* (?? in place of ||), so that an empty MCP_MEMORY_URL is the target
FetchCallNullishUrl(req, method, params, id) ==
    [req        |-> req,
     url        |-> IF env.MCP_MEMORY_URL # Undefined THEN env.MCP_MEMORY_URL.s
                    ELSE DEFAULT_URL,
     httpMethod |-> "POST",
     headers    |-> [ContentType   |-> "application/json",
                     Accept        |-> "application/json",
                     Authorization |-> "Bearer " \o env.MCP_MEMORY_TOKEN.s],
     body       |-> Stringify(JObj(<< <<"jsonrpc", JStr("2.0")>>,
                                      <<"method", method>>,
                                      <<"params", params>>,
                                      <<"id", id>> >>))]

\* faulty variant: the outbound body carrying the constant id 1
FetchCallConstantId(req, method, params, id) ==
    [req        |-> req,
     url        |-> IF Truthy(env.MCP_MEMORY_URL) THEN env.MCP_MEMORY_URL.s
                    ELSE DEFAULT_URL,
     httpMethod |-> "POST",
     headers    |-> [ContentType   |-> "application/json",
                     Accept        |-> "application/json",
                     Authorization |-> "Bearer " \o env.MCP_MEMORY_TOKEN.s],
     body       |-> Stringify(JObj(<< <<"jsonrpc", JStr("2.0")>>,
                                      <<"method", method>>,
                                      <<"params", params>>,
                                      <<"id", JNum(1)>> >>))]

\* the fetch(url, { method: "POST", headers, body }) of one forwarded request
FetchCall(req, method, params, id) ==
    [req        |-> req,
     url        |-> IF Truthy(env.MCP_MEMORY_URL) THEN env.MCP_MEMORY_URL.s
                    ELSE DEFAULT_URL,
     httpMethod |-> "POST",
     headers    |-> [ContentType   |-> "application/json",
                     Accept        |-> "application/json",
                     Authorization |-> "Bearer " \o env.MCP_MEMORY_TOKEN.s],
     body       |-> Stringify(JObj(<< <<"jsonrpc", JStr("2.0")>>,
                                      <<"method", method>>,
                                      <<"params", params>>,
                                      <<"id", id>> >>))]

\* faulty variant: no return after the -32700 envelope, so the handler goes on
\* to read data.jsonrpc of the null data and answers again from its catch
ParseErrorWritesNoReturn(req, id) ==
    << Err(req, "Failed to parse remote response"),
       Out(req, Envelope(id, "error",
                ErrorObject(-32700, "Parse error: Invalid JSON from server"))),
       Err(req, "Forwarding failed: Cannot read properties of null (reading 'jsonrpc')"),
       Out(req, Envelope(id, "error",
                ErrorObject(-32603,
                    "Internal error: Cannot read properties of null (reading 'jsonrpc')"))) >>

\* the string s has t as a substring
Contains(s, t) ==
    \E i \in 1..Len(s) : \E j \in i..Len(s) : SubSeq(s, i, j) = t

\* fetch refuses a header value with a line feed inside it (leading and
\* trailing white space is stripped first)
InvalidHeaderValue(value) ==
    \E i \in 2..(Len(value) - 1) : SubSeq(value, i, i) = "\n"

\* the message of the TypeError fetch rejects with for such a header: it
\* quotes the value
InvalidHeaderCause(value) ==
    "Headers.append: \"" \o value \o "\" is an invalid header value."

\* the fetch of call c rejects before anything is sent
FetchRefuses(c) == InvalidHeaderValue(c.headers.Authorization)

\* JSON.parse(text) threw: diagnostic and the -32700 envelope
ParseErrorWrites(req, id) ==
    << Err(req, "Failed to parse remote response"),
       Out(req, Envelope(id, "error",
                ErrorObject(-32700, "Parse error: Invalid JSON from server"))) >>

\* faulty variant: the catch answering with id null
InternalErrorWritesNullId(req, id, cause) ==
    << Err(req, "Forwarding failed: " \o cause),
       Out(req, Envelope(JNull, "error",
                ErrorObject(-32603, "Internal error: " \o cause))) >>

\* faulty variant: the catch answering without the cause in the message
InternalErrorWritesNoCause(req, id, cause) ==
    << Err(req, "Forwarding failed: " \o cause),
       Out(req, Envelope(id, "error", ErrorObject(-32603, "Internal error"))) >>

\* catch (e) of the forward: diagnostic and the -32603 envelope
InternalErrorWrites(req, id, cause) ==
    << Err(req, "Forwarding failed: " \o cause),
       Out(req, Envelope(id, "error",
                ErrorObject(-32603, "Internal error: " \o cause))) >>

\* data.jsonrpc === "2.0" && data.id === id
IsEnvelopeFor(data, id) ==
    /\ StrictEq(Prop(data, "jsonrpc"), JStr("2.0"))
    /\ StrictEq(Prop(data, "id"), id)

\* faulty variant: the relay rebuilding the envelope from the extracted member
RelayWritesExtracted(req, data) ==
    << Out(req, IF Truthy(Prop(data, "error"))
                THEN Envelope(Prop(data, "id"), "error", Prop(data, "error"))
                ELSE Envelope(Prop(data, "id"), "result", Prop(data, "result"))) >>

\* the envelope written verbatim
RelayWrites(req, data) == << Out(req, data) >>

\* faulty variant: the warning logged with console.log, onto stdout
WrapWritesLoggedOnStdout(req, id, data) ==
    << [chan |-> "stdout", req |-> req,
        text |-> [kind |-> "diag",
                  v |-> JStr("Server response missing JSON-RPC envelope")]],
       Out(req, Envelope(id, "result", data)) >>

\* the non-conformant reply wrapped as a result
WrapWrites(req, id, data) ==
    << Err(req, "Server response missing JSON-RPC envelope"),
       Out(req, Envelope(id, "result", data)) >>

\* faulty variant: the adapter numbering its answers with a counter of its
\* own instead of the id it was given
ReplyWritesNumbered(req, id, text) ==
    IF ParseThrows(text) THEN ParseErrorWrites(req, JNum(req))
    ELSE LET data == Parse(text)
         IN  IF PropThrows(data)
             THEN InternalErrorWrites(req, JNum(req),
                      "Cannot read properties of null (reading 'jsonrpc')")
             ELSE IF IsEnvelopeFor(data, id) THEN RelayWrites(req, data)
             ELSE WrapWrites(req, JNum(req), data)

\* Everything the forward writes once res.text() has given the body text.
ReplyWrites(req, id, text) ==
    IF ParseThrows(text) THEN ParseErrorWrites(req, id)
    ELSE LET data == Parse(text)
         IN  IF PropThrows(data)
             THEN InternalErrorWrites(req, id,
                      "Cannot read properties of null (reading 'jsonrpc')")
             ELSE IF IsEnvelopeFor(data, id) THEN RelayWrites(req, data)
             ELSE WrapWrites(req, id, data)

-----------------------------------------------------------------------------
(* The environment: what can arrive on stdin and what the backend can send. *)

\* the text of a client message; an undefined member is absent from the text
Request(method, id, params) ==
    Stringify(JObj(<< <<"jsonrpc", JStr("2.0")>>, <<"method", JStr(method)>>,
                      <<"id", id>>, <<"params", params>> >>))

JsonText(v) == [kind |-> "json", v |-> v]

SearchCall ==
    JObj(<< <<"name", JStr("memory-search")>>, <<"arguments", JObj(<<>>)>> >>)

ListMethods ==
    {"initialize", "notifications/initialized", "tools/list",
     "resources/templates/list", "prompts/list", "resources/list"}

InboundLines ==
    {Blank, Garbage, JsonText(JNull), JsonText(JNum(5))}
    \cup {Request(m, JNum(1), Undefined) : m \in ListMethods}
    \cup {Request(m, Undefined, Undefined) :
              m \in {"initialize", "notifications/initialized", "tools/list"}}
    \cup {Request("prompts/get", JNum(1), Named("name", "memory-agent-core")),
          Request("prompts/get", Undefined, Named("name", "no-such-prompt")),
          Request("resources/read", JNum(1), Named("uri", "memory://index")),
          Request("prompts/get", JNum(2), Undefined),
          Request("resources/read", JNum(1), Named("uri", "memory://unknown")),
          Request("resources/read", JNum(2), Undefined),
          Request("tools/call", JNum(1), SearchCall)}

Payload == JObj(<< <<"content", JArr(<<JStr("hit")>>)>> >>)

InvalidRequest == ErrorObject(-32600, "Invalid Request")

\* The bodies the backend may answer a call carrying id with.
BackendBodies(id) ==
    LET Body(o) == Stringify(JObj(o))
        v2      == <<"jsonrpc", JStr("2.0")>>
    IN  { Garbage,
          JsonText(JNull),
          JsonText(JArr(<<JNum(7)>>)),
          Body(<< <<"id", id>>, <<"result", Payload>>, v2, <<"took", JNum(3)>> >>),
          Body(<< v2, <<"id", id>>, <<"error", InvalidRequest>> >>),
          Body(<< v2, <<"id", id>>, <<"result", Payload>>,
                  <<"error", InvalidRequest>> >>),
          Body(<< v2, <<"id", id>> >>),
          Body(<< v2, <<"id", JNull>>, <<"error", InvalidRequest>> >>) }

HttpStatuses == {200, 401}

TransportCauses == {"connect ECONNREFUSED 127.0.0.1:8000"}

\* unset, empty, a usable token, and a token with a line feed inside it
EnvTokens == {Undefined, JStr(""), JStr("test-token"), JStr("bad\ntoken")}

EnvUrls == {Undefined, JStr(""), JStr("http://127.0.0.1:8000/api/v1/mcp/memory")}

\* the causes the fetch of call c can reject with
RejectionCauses(c) ==
    IF FetchRefuses(c) THEN {InvalidHeaderCause(c.headers.Authorization)}
    ELSE TransportCauses

-----------------------------------------------------------------------------
(* State machine *)

Init ==
    /\ env \in [MCP_MEMORY_TOKEN : EnvTokens, MCP_MEMORY_URL : EnvUrls]
    /\ lines = <<>>
    /\ inflight = {}
    /\ calls = <<>>
    /\ written = <<>>
    /\ replies = {}
    /\ rlOpen = TRUE

\* faulty variant: a forward that gives up once any failure has been reported
ForwardStartHaltedByFailure(req, method, params, id) ==
    IF \E i \in 1..Len(written) : written[i].chan = "stderr"
    THEN UNCHANGED <<written, calls, inflight>>
    ELSE IF ~Truthy(env.MCP_MEMORY_TOKEN)
    THEN /\ written' = written \o MissingTokenWrites(req, id)
         /\ UNCHANGED <<calls, inflight>>
    ELSE /\ calls' = Append(calls, FetchCall(req, method, params, id))
         /\ inflight' = inflight \cup {[req |-> req, id |-> id]}
         /\ UNCHANGED written

\* faulty variant: the gate testing only for an unset credential
ForwardStartUnsetOnly(req, method, params, id) ==
    IF env.MCP_MEMORY_TOKEN = Undefined
    THEN /\ written' = written \o MissingTokenWrites(req, id)
         /\ UNCHANGED <<calls, inflight>>
    ELSE /\ calls' = Append(calls, FetchCall(req, method, params, id))
         /\ inflight' = inflight \cup {[req |-> req, id |-> id]}
         /\ UNCHANGED written

\* forwardToMCP up to its first await: the credential gate, then the fetch.
ForwardStart(req, method, params, id) ==
    IF ~Truthy(env.MCP_MEMORY_TOKEN)
    THEN /\ written' = written \o MissingTokenWrites(req, id)
         /\ UNCHANGED <<calls, inflight>>
    ELSE /\ calls' = Append(calls, FetchCall(req, method, params, id))
         /\ inflight' = inflight \cup {[req |-> req, id |-> id]}
         /\ UNCHANGED written

\* faulty variant: the catch also answering with a -32700 envelope, id null
InboundParseErrorWritesAnswered(req, message) ==
    << Err(req, "Parse error: " \o message),
       Out(req, Envelope(JNull, "error", ErrorObject(-32700, "Parse error"))) >>

\* catch (e) of the line handler: the diagnostic, and nothing on stdout
InboundParseErrorWrites(req, message) ==
    << Err(req, "Parse error: " \o message) >>

\* rl.on("line", async (line) => ...): the handler of one stdin line, run to
\* its return or to its suspension at `await fetch`.
ReadLine(text) ==
    /\ rlOpen
    /\ Len(lines) < MaxInput
    /\ lines' = Append(lines, text)
    /\ LET req == Len(lines) + 1
       IN  IF IsBlank(text)
           THEN UNCHANGED <<written, calls, inflight>>
           ELSE IF ParseThrows(text)
           THEN /\ written' = written \o
                        InboundParseErrorWrites(req, "Unexpected token in JSON")
                /\ UNCHANGED <<calls, inflight>>
           ELSE IF PropThrows(Parse(text))
           THEN /\ written' = written \o
                        InboundParseErrorWrites(req,
                            "Cannot read properties of null (reading 'method')")
                /\ UNCHANGED <<calls, inflight>>
           ELSE LET msg == Parse(text)
                    d   == Dispatch(req, msg)
                IN  IF d.route = "local"
                    THEN /\ written' = written \o d.writes
                         /\ UNCHANGED <<calls, inflight>>
                    ELSE ForwardStart(req, Prop(msg, "method"),
                                      Prop(msg, "params"), Prop(msg, "id"))
    /\ UNCHANGED <<env, replies, rlOpen>>

\* the fetch call the waiting handler h made
CallOf(h) == calls[CHOOSE c \in 1..Len(calls) : calls[c].req = h.req]

\* faulty variant: the initialize notification put off to a later turn, so
\* that the reply of a call that settles meanwhile is written ahead of it
FetchResolvesOvertaking(h, status, text) ==
    /\ h \in inflight
    /\ ~FetchRefuses(CallOf(h))
    /\ inflight' = inflight \ {h}
    /\ written' =
          IF written # <<>> /\ written[Len(written)].text = Stringify(InitializedNotification)
          THEN SubSeq(written, 1, Len(written) - 1)
                   \o ReplyWrites(h.req, h.id, text)
                   \o << written[Len(written)] >>
          ELSE written \o ReplyWrites(h.req, h.id, text)
    /\ replies' = replies \cup
          {[req |-> h.req, status |-> status, text |-> text]}
    /\ UNCHANGED <<env, lines, calls, rlOpen>>

\* faulty variant: a reply with a status other than 200 treated as a failure
\* (if (!res.ok) throw)
FetchResolvesCheckingStatus(h, status, text) ==
    /\ h \in inflight
    /\ ~FetchRefuses(CallOf(h))
    /\ inflight' = inflight \ {h}
    /\ written' = written \o
          (IF status = 200 THEN ReplyWrites(h.req, h.id, text)
           ELSE InternalErrorWrites(h.req, h.id, "HTTP error"))
    /\ replies' = replies \cup
          {[req |-> h.req, status |-> status, text |-> text]}
    /\ UNCHANGED <<env, lines, calls, rlOpen>>

\* faulty variant: the id kept in a variable shared by all handlers, so that
\* a reply is answered with the id of the line read last
FetchResolvesSharedId(h, status, text) ==
    /\ h \in inflight
    /\ ~FetchRefuses(CallOf(h))
    /\ inflight' = inflight \ {h}
    /\ written' = written \o
          ReplyWrites(h.req, Prop(Parse(lines[Len(lines)]), "id"), text)
    /\ replies' = replies \cup
          {[req |-> h.req, status |-> status, text |-> text]}
    /\ UNCHANGED <<env, lines, calls, rlOpen>>

\* fetch resolved with some status and res.text() gave the body: the handler
\* h resumes and runs to its end.  (Nothing is written between the two
\* awaits, and the status is not read.)
FetchResolves(h, status, text) ==
    /\ h \in inflight
    /\ ~FetchRefuses(CallOf(h))
    /\ inflight' = inflight \ {h}
    /\ written' = written \o ReplyWrites(h.req, h.id, text)
    /\ replies' = replies \cup
          {[req |-> h.req, status |-> status, text |-> text]}
    /\ UNCHANGED <<env, lines, calls, rlOpen>>

\* faulty variant: the catch issuing the fetch once more before it answers
FetchRejectsRetried(h, cause) ==
    /\ h \in inflight
    /\ inflight' = inflight \ {h}
    /\ calls' = Append(calls, calls[CHOOSE c \in 1..Len(calls) : calls[c].req = h.req])
    /\ written' = written \o InternalErrorWrites(h.req, h.id, cause)
    /\ replies' = replies \cup
          {[req |-> h.req, status |-> NoStatus, text |-> Rejection(cause)]}
    /\ UNCHANGED <<env, lines, rlOpen>>

\* fetch or res.text() rejected: the handler h resumes in its catch.
FetchRejects(h, cause) ==
    /\ h \in inflight
    /\ inflight' = inflight \ {h}
    /\ written' = written \o InternalErrorWrites(h.req, h.id, cause)
    /\ replies' = replies \cup
          {[req |-> h.req, status |-> NoStatus, text |-> Rejection(cause)]}
    /\ UNCHANGED <<env, lines, calls, rlOpen>>

\* faulty variant: a close handler calling process.exit, which abandons the
\* handlers still waiting for their fetch
StdinEndExits ==
    /\ rlOpen
    /\ Len(lines) < MaxInput
    /\ rlOpen' = FALSE
    /\ inflight' = {}
    /\ UNCHANGED <<env, lines, calls, written, replies>>

\* stdin reaches end of input: readline emits no further line.
StdinEnd ==
    /\ rlOpen
    /\ Len(lines) < MaxInput
    /\ rlOpen' = FALSE
    /\ UNCHANGED <<env, lines, inflight, calls, written, replies>>

\* Nothing in the script ends the process: it ends when stdin has closed and
\* no handler is waiting for its fetch.
Exited == ~rlOpen /\ inflight = {}

Resolves ==
    \E h \in inflight : \E status \in HttpStatuses, text \in BackendBodies(h.id) :
        FetchResolves(h, status, text)

Rejects ==
    \E h \in inflight : \E cause \in RejectionCauses(CallOf(h)) :
        FetchRejects(h, cause)

Next ==
    \/ \E text \in InboundLines : ReadLine(text)
    \/ Resolves
    \/ Rejects
    \/ StdinEnd

Spec == Init /\ [][Next]_vars

\* Every pending fetch settles: the transport resolves or rejects it, and
\* the event loop then resumes the handler.
FairSpec ==
    /\ Spec
    /\ WF_vars(Resolves \/ Rejects)

-----------------------------------------------------------------------------
(* Observations on a run *)

\* positions of the stdout writes, and of those made by the handler of line r
OutIdx == {i \in 1..Len(written) : written[i].chan = "stdout"}
OutOf(r) == {i \in OutIdx : written[i].req = r}
ErrOf(r) == {i \in 1..Len(written) :
                written[i].chan = "stderr" /\ written[i].req = r}

\* the JSON value a stdout line carries (what a client parses from it)
LineValue(i) == Parse(written[i].text)

Has(v, key) == Prop(v, key) # Undefined

\* a stdout line is a notification when it has a method, else a response
IsResponseLine(i) == ~Has(LineValue(i), "method")
ResponsesOf(r) == {i \in OutOf(r) : IsResponseLine(i)}

\* line r parsed to an object (a message)
IsMessage(r) == lines[r].kind = "json" /\ Parse(lines[r]).k = "object"
Msg(r) == Parse(lines[r])
MethodIs(r, m) == IsMessage(r) /\ Prop(Msg(r), "method") = JStr(m)

\* line r is one the handler forwards
IsForwarded(r) ==
    /\ lines[r].kind = "json"
    /\ ~PropThrows(Parse(lines[r]))
    /\ Dispatch(r, Parse(lines[r])).route = "forward"

CallsOf(r) == {c \in 1..Len(calls) : calls[c].req = r}

\* the error object of a response line
ErrorOf(i) == Prop(LineValue(i), "error")

-----------------------------------------------------------------------------
(* Claims *)

\* C1: every `initialize` request gets exactly two stdout lines: first the
\* response, carrying the request's id (no id when the request has none) and
\* result.protocolVersion "2024-11-05", and after it the one
\* notifications/initialized notification.
C1_InitializeHandshake ==
    \A r \in 1..Len(lines) :
        MethodIs(r, "initialize") =>
            \E i, j \in OutOf(r) :
                /\ i < j
                /\ OutOf(r) = {i, j}
                /\ IsResponseLine(i)
                /\ Prop(LineValue(i), "id") = Prop(Msg(r), "id")
                /\ Prop(Prop(LineValue(i), "result"), "protocolVersion")
                       = JStr("2024-11-05")
                /\ Prop(LineValue(j), "method") = JStr("notifications/initialized")
                /\ ~Has(LineValue(j), "id")

C1_Witness ==
    \E r \in 1..Len(lines) :
        /\ MethodIs(r, "initialize")
        /\ Prop(Msg(r), "id") = JNum(1)
        /\ Cardinality(OutOf(r)) = 2
        /\ r > 1

\* C2: with the credential absent (unset or empty), a line that takes the
\* forward route gets exactly one stdout line, the -32000 error envelope
\* naming the missing credential with the inbound id, no fetch is issued for
\* it, and a FATAL diagnostic is written to stderr.
C2_MissingCredential ==
    ~Truthy(env.MCP_MEMORY_TOKEN) =>
        \A r \in 1..Len(lines) :
            IsForwarded(r) =>
                /\ CallsOf(r) = {}
                /\ \E i \in OutOf(r) :
                      /\ OutOf(r) = {i}
                      /\ ~Has(LineValue(i), "result")
                      /\ Prop(ErrorOf(i), "code") = JNum(-32000)
                      /\ Prop(ErrorOf(i), "message") =
                            JStr("MCP_MEMORY_TOKEN is required but missing from environment")
                      /\ Prop(LineValue(i), "id") = Prop(Parse(lines[r]), "id")
                /\ \E e \in ErrOf(r) :
                      written[e].text.v =
                          JStr("FATAL: MCP_MEMORY_TOKEN is missing in environment")

C2_Witness ==
    /\ env.MCP_MEMORY_TOKEN = JStr("")
    /\ \E r \in 1..Len(lines) :
          /\ MethodIs(r, "tools/call")
          /\ Cardinality(OutOf(r)) = 1
          /\ CallsOf(r) = {}

\* the id the fetch for line r carried in its body
OutboundId(r) ==
    Prop(Parse(calls[CHOOSE c \in CallsOf(r) : TRUE].body), "id")

\* the reply to line r parsed to an envelope with jsonrpc "2.0" and the
\* outbound id
IsMatchingEnvelope(rep) ==
    /\ rep.text.kind = "json"
    /\ Parse(rep.text).k = "object"
    /\ Prop(Parse(rep.text), "jsonrpc") = JStr("2.0")
    /\ Prop(Parse(rep.text), "id") = OutboundId(rep.req)

\* C3: when the backend's body parses to an envelope with jsonrpc "2.0" and
\* the outbound id, the one stdout line of that request is that envelope, with
\* the same members in the same order and nothing added or removed.
C3_VerbatimRelay ==
    \A rep \in replies :
        IsMatchingEnvelope(rep) =>
            \E i \in OutOf(rep.req) :
                /\ OutOf(rep.req) = {i}
                /\ written[i].text = rep.text

C3_Witness ==
    \E rep \in replies :
        /\ IsMatchingEnvelope(rep)
        /\ Has(Parse(rep.text), "took")
        /\ OutboundId(rep.req) = JNum(1)
        /\ OutOf(rep.req) # {}

\* C4: every response line written for an inbound message that carries an id
\* carries exactly that id, whichever branch wrote it.
C4_IdEchoed ==
    \A i \in OutIdx :
        (/\ IsResponseLine(i)
         /\ IsMessage(written[i].req)
         /\ Has(Msg(written[i].req), "id"))
            => Prop(LineValue(i), "id") = Prop(Msg(written[i].req), "id")

C4_Witness ==
    \E i \in OutIdx :
        /\ IsResponseLine(i)
        /\ MethodIs(written[i].req, "resources/read")
        /\ Prop(Msg(written[i].req), "id") = JNum(2)
        /\ \E rep \in replies : rep.req = written[i].req /\ ~IsMatchingEnvelope(rep)

ExactlyOneMember(v) == Has(v, "result") # Has(v, "error")

\* C5: every response envelope on stdout has exactly one of result and
\* error, whatever the backend returned.
C5_ExactlyOneOfResultError ==
    \A i \in OutIdx : IsResponseLine(i) => ExactlyOneMember(LineValue(i))

\* C6: whenever the backend's body is a JSON-RPC envelope with an error
\* member, even one whose id is not the outbound id, the request's output
\* line carries that error as its error member.
C6_BackendErrorRelayed ==
    \A rep \in replies :
        (/\ rep.text.kind = "json"
         /\ Prop(Parse(rep.text), "jsonrpc") = JStr("2.0")
         /\ Has(Parse(rep.text), "error"))
            => \E i \in OutOf(rep.req) :
                  /\ OutOf(rep.req) = {i}
                  /\ ErrorOf(i) = Prop(Parse(rep.text), "error")

\* the values of member key over the entries of a listed array
Listed(i, member, key) ==
    LET array == Prop(Prop(LineValue(i), "result"), member).a
    IN  {Prop(array[n], key).s : n \in 1..Len(array)}

\* C7: tools/list returns exactly the five tool names memory-write,
\* memory-update, memory-delete, memory-search and memory-link.
C7_ToolsListFiveTools ==
    \A r \in 1..Len(lines) :
        MethodIs(r, "tools/list") =>
            \A i \in OutOf(r) :
                Listed(i, "tools", "name") =
                    {"memory-write", "memory-update", "memory-delete",
                     "memory-search", "memory-link"}

\* C8: resources/templates/list returns the template memory://index and no
\* other template.
C8_TemplatesOnlyIndex ==
    \A r \in 1..Len(lines) :
        MethodIs(r, "resources/templates/list") =>
            \A i \in OutOf(r) :
                Listed(i, "resourceTemplates", "uriTemplate") = {"memory://index"}

\* line r is a request object (it has a method) that carries an id
IsRequestWithId(r) ==
    /\ r <= Len(lines)
    /\ IsMessage(r)
    /\ Has(Msg(r), "method")
    /\ Has(Msg(r), "id")

AnsweredOnce(r) ==
    /\ Cardinality(ResponsesOf(r)) = 1
    /\ \A i \in ResponsesOf(r) : Prop(LineValue(i), "id") = Prop(Msg(r), "id")

\* the handler of line r has run to its end (its fetch, if any, has settled)
HandlerDone(r) == r <= Len(lines) /\ ~\E h \in inflight : h.req = r

\* C9: no response is dropped or duplicated: no line ever has more than one
\* response, and every request object carrying an id has, once its handler
\* has run to its end (any backend call it made has returned or failed),
\* exactly one response line addressed to its id.
C9_EveryRequestAnswered ==
    /\ \A r \in 1..Len(lines) : Cardinality(ResponsesOf(r)) <= 1
    /\ \A r \in 1..Len(lines) :
          (IsRequestWithId(r) /\ HandlerDone(r)) => AnsweredOnce(r)

\* C10: a message without an id is a notification and no response envelope
\* is ever written for it, whatever its method.
C10_NotificationsUnanswered ==
    \A r \in 1..Len(lines) :
        (IsMessage(r) /\ Has(Msg(r), "method") /\ ~Has(Msg(r), "id"))
            => ResponsesOf(r) = {}

\* C11: a line that JSON.parse rejects gets no stdout line and no backend
\* call, and is reported by one diagnostic on stderr; a blank line is skipped
\* before parsing and gets nothing at all.
C11_UnparsableLineOnlyDiagnosed ==
    \A r \in 1..Len(lines) :
        ParseThrows(lines[r]) =>
            /\ OutOf(r) = {}
            /\ CallsOf(r) = {}
            /\ Cardinality(ErrOf(r)) = IF IsBlank(lines[r]) THEN 0 ELSE 1
            /\ \A e \in ErrOf(r) :
                  written[e].text.v = JStr("Parse error: Unexpected token in JSON")

C11_Witness ==
    /\ Truthy(env.MCP_MEMORY_TOKEN)
    /\ \E r \in 1..Len(lines) :
          /\ lines[r] = Garbage
          /\ ErrOf(r) # {}
          /\ r > 1

\* a write is diagnostic text, not a JSON text
IsDiagnostic(w) == w.text.kind = "diag"

\* C12: every stdout line is a JSON-RPC 2.0 message, either the
\* notifications/initialized notification or a response envelope (an object
\* tagged jsonrpc "2.0" without a method), and every diagnostic is written to
\* stderr.
C12_StdoutOnlyProtocol ==
    \A i \in 1..Len(written) :
        /\ IsDiagnostic(written[i]) => written[i].chan = "stderr"
        /\ written[i].chan = "stdout" =>
              /\ written[i].text.kind = "json"
              /\ LineValue(i).k = "object"
              /\ Prop(LineValue(i), "jsonrpc") = JStr("2.0")
              /\ Has(LineValue(i), "method") => LineValue(i) = InitializedNotification

C12_Witness ==
    /\ \E i \in OutIdx : \E rep \in replies :
          rep.req = written[i].req /\ rep.text = JsonText(JArr(<<JNum(7)>>))
    /\ \E i \in 1..Len(written) : written[i].chan = "stderr"
    /\ \E i \in OutIdx : Has(LineValue(i), "method")

\* the id member of inbound line r (undefined when the line carries none)
InboundId(r) == Prop(Parse(lines[r]), "id")

\* C13: when the fetch of a request rejects, the request gets exactly one
\* stdout line, an error envelope with code -32603, a message carrying the
\* cause and the id of the inbound request, and exactly one backend call has
\* been made for it.
C13_TransportFailureAnswered ==
    \A rep \in replies :
        rep.text.kind = "reject" =>
            /\ Cardinality(CallsOf(rep.req)) = 1
            /\ \E i \in OutOf(rep.req) :
                  /\ OutOf(rep.req) = {i}
                  /\ ~Has(LineValue(i), "result")
                  /\ Prop(ErrorOf(i), "code") = JNum(-32603)
                  /\ Prop(ErrorOf(i), "message") =
                        JStr("Internal error: " \o rep.text.v.s)
                  /\ Prop(LineValue(i), "id") = InboundId(rep.req)

C13_Witness ==
    \E rep \in replies :
        /\ rep.text.kind = "reject"
        /\ InboundId(rep.req) = JNum(2)
        /\ \E i \in OutOf(rep.req) : Prop(ErrorOf(i), "code") = JNum(-32603)

\* C14: when the backend's body is not valid JSON, the request gets exactly
\* one stdout line, an error envelope with code -32700 and the id of the
\* inbound request, carrying no result.
C14_InvalidBackendJson ==
    \A rep \in replies :
        rep.text.kind = "garbage" =>
            \E i \in OutOf(rep.req) :
                /\ OutOf(rep.req) = {i}
                /\ ~Has(LineValue(i), "result")
                /\ Prop(ErrorOf(i), "code") = JNum(-32700)
                /\ Prop(LineValue(i), "id") = InboundId(rep.req)

C14_Witness ==
    \E rep \in replies :
        /\ rep.text = Garbage
        /\ MethodIs(rep.req, "tools/call")
        /\ \E i \in OutOf(rep.req) : Prop(ErrorOf(i), "code") = JNum(-32700)

\* the reply to line r parsed as JSON but not to an envelope with jsonrpc
\* "2.0" and the outbound id
IsNonEnvelope(rep) == rep.text.kind = "json" /\ ~IsMatchingEnvelope(rep)

\* C15: when the backend's body parses as JSON but is not an envelope with
\* jsonrpc "2.0" and the outbound id, whatever kind of value it parsed to
\* (null included), the request gets exactly one stdout line, a success
\* envelope whose result is the whole parsed value and whose id is the id of
\* the inbound request.
C15_NonEnvelopeWrapped ==
    \A rep \in replies :
        IsNonEnvelope(rep) =>
            \E i \in OutOf(rep.req) :
                /\ OutOf(rep.req) = {i}
                /\ ~Has(LineValue(i), "error")
                /\ Prop(LineValue(i), "result") = Parse(rep.text)
                /\ Prop(LineValue(i), "id") = InboundId(rep.req)

\* C16: no inbound line has more than one backend call, whatever became of
\* the call, and a line the handler answers locally or drops has none.
C16_AtMostOneCall ==
    \A r \in 1..Len(lines) :
        /\ Cardinality(CallsOf(r)) <= 1
        /\ ~IsForwarded(r) => CallsOf(r) = {}

C16_Witness ==
    /\ \E rep \in replies :
          /\ rep.text.kind = "reject"
          /\ Cardinality(CallsOf(rep.req)) = 1
    /\ \E r \in 1..Len(lines) : MethodIs(r, "tools/list") /\ OutOf(r) # {}

\* the value the outbound body of call c parses to
BodyOf(c) == Parse(calls[c].body)

\* C17: the body of every backend call is a JSON text of an object tagged
\* jsonrpc "2.0" whose method, params and id are the members of the inbound
\* line it forwards, a member the line lacks being absent from the body.
C17_OutboundBodyFaithful ==
    \A c \in 1..Len(calls) :
        LET inbound == Parse(lines[calls[c].req])
        IN  /\ calls[c].body.kind = "json"
            /\ Prop(BodyOf(c), "jsonrpc") = JStr("2.0")
            /\ Prop(BodyOf(c), "method") = Prop(inbound, "method")
            /\ Prop(BodyOf(c), "params") = Prop(inbound, "params")
            /\ Prop(BodyOf(c), "id") = Prop(inbound, "id")

C17_Witness ==
    \E c \in 1..Len(calls) :
        /\ Prop(BodyOf(c), "id") = JNum(2)
        /\ Prop(BodyOf(c), "method") = JStr("resources/read")
        /\ ~Has(BodyOf(c), "params")
        /\ \E d \in 1..Len(calls) : Prop(BodyOf(d), "params") = SearchCall

\* C18: response lines appear on stdout in the order their requests were
\* read: a response to a later line is never written before the response to
\* an earlier one.
C18_OutputOrderFollowsInput ==
    \A i, j \in OutIdx :
        (i < j /\ IsResponseLine(i) /\ IsResponseLine(j))
            => written[i].req <= written[j].req

\* C19: a line is read only when the handler of every earlier line has
\* finished, so a call in flight belongs to the last line read and at most
\* one call is in flight.
C19_OneLineAtATime ==
    /\ Cardinality(inflight) <= 1
    /\ \A h \in inflight : h.req = Len(lines)

\* line r has a backend call behind it
HasCall(r) == r <= Len(lines) /\ CallsOf(r) # {}

\* C20: once stdin has closed, every request with a backend call gets its one
\* stdout line and the process then ends, and the process never ends with
\* such a request unanswered.
C20_DrainOnClose ==
    /\ [](Exited => \A r \in 1..MaxInput : HasCall(r) => OutOf(r) # {})
    /\ \A r \in 1..MaxInput :
          (~rlOpen /\ HasCall(r)) ~> (Exited /\ Cardinality(OutOf(r)) = 1)

C20_Witness ==
    /\ Exited
    /\ Len(lines) = 1
    /\ HasCall(1)
    /\ \E rep \in replies : rep.req = 1 /\ rep.text.kind = "json"
    /\ Cardinality(OutOf(1)) = 1

\* C21: a notifications/initialized line, wherever it comes in the run and
\* whatever the credential, gets no stdout line and no backend call.
C21_InboundInitializedIgnored ==
    \A r \in 1..Len(lines) :
        MethodIs(r, "notifications/initialized") =>
            OutOf(r) = {} /\ CallsOf(r) = {}

C21_Witness ==
    /\ Truthy(env.MCP_MEMORY_TOKEN)
    /\ Len(lines) = 2
    /\ MethodIs(2, "notifications/initialized")
    /\ MethodIs(1, "initialize")
    /\ written # <<>>

\* the methods answered from the descriptor alone
LocalMethods ==
    {"initialize", "tools/list", "resources/templates/list", "resources/list",
     "prompts/list"}

\* C22: initialize, tools/list, resources/templates/list, resources/list and
\* prompts/list each get exactly one response line, carrying a result and no
\* error, and no backend call, whatever the credential.
C22_LocalMethodsNeedNoCredential ==
    \A r \in 1..Len(lines) :
        (\E m \in LocalMethods : MethodIs(r, m)) =>
            /\ CallsOf(r) = {}
            /\ \E i \in OutOf(r) :
                  /\ ResponsesOf(r) = {i}
                  /\ Has(LineValue(i), "result")
                  /\ ~Has(LineValue(i), "error")

C22_Witness ==
    /\ ~Truthy(env.MCP_MEMORY_TOKEN)
    /\ Len(lines) = 2
    /\ MethodIs(1, "initialize")
    /\ MethodIs(2, "prompts/list")
    /\ \A r \in 1..2 : \E i \in ResponsesOf(r) : Has(LineValue(i), "result")

\* the params member `key` of line r, undefined when the line has no params
\* object or the object has no such member
Wanted(r, key) ==
    IF Prop(Msg(r), "params").k = "object"
    THEN Prop(Prop(Msg(r), "params"), key)
    ELSE Undefined

\* the entries of a descriptor array whose member `key` is v
Matching(array, key, v) ==
    {i \in 1..Len(array) : Prop(array[i], key) = v}

\* line r got exactly one stdout line, a result whose `member` is entry, and
\* no backend call
AnsweredLocallyWith(r, member, entry) ==
    /\ CallsOf(r) = {}
    /\ \E i \in OutOf(r) :
          /\ OutOf(r) = {i}
          /\ ~Has(LineValue(i), "error")
          /\ Prop(Prop(LineValue(i), "result"), member) = entry
          /\ Prop(LineValue(i), "id") = InboundId(r)

\* line r went through the forward: with a credential exactly one call, whose
\* body carries the line's method, params and id; and once its handler has
\* finished exactly one stdout line
WentToForward(r) ==
    /\ Truthy(env.MCP_MEMORY_TOKEN) =>
          \E c \in CallsOf(r) :
              /\ CallsOf(r) = {c}
              /\ Prop(BodyOf(c), "method") = Prop(Msg(r), "method")
              /\ Prop(BodyOf(c), "params") = Prop(Msg(r), "params")
              /\ Prop(BodyOf(c), "id") = Prop(Msg(r), "id")
    /\ ~Truthy(env.MCP_MEMORY_TOKEN) => CallsOf(r) = {}
    /\ HandlerDone(r) => Cardinality(OutOf(r)) = 1

\* C23: prompts/get naming a static prompt is answered locally with that
\* prompt and no backend call; with any other name, no name or no params it
\* goes through the forward with its method, params and id unchanged and
\* gets exactly one stdout line.
C23_PromptsGet ==
    \A r \in 1..Len(lines) :
        MethodIs(r, "prompts/get") =>
            LET found == Matching(CAPABILITIES.result.prompts, "name",
                                  Wanted(r, "name"))
            IN  IF found # {}
                THEN \E i \in found :
                        AnsweredLocallyWith(r, "prompt",
                                            CAPABILITIES.result.prompts[i])
                ELSE WentToForward(r)

C23_Witness ==
    /\ Truthy(env.MCP_MEMORY_TOKEN)
    /\ Len(lines) = 2
    /\ MethodIs(1, "prompts/get") /\ Wanted(1, "name") = Undefined
    /\ MethodIs(2, "prompts/get") /\ Wanted(2, "name") = JStr("memory-agent-core")
    /\ CallsOf(1) # {} /\ OutOf(1) # {} /\ OutOf(2) # {}

\* C24: resources/read naming a static resource's uri is answered locally
\* with that resource and no backend call; with any other uri, no uri or no
\* params it goes through the forward with its method, params and id
\* unchanged and gets exactly one stdout line.
C24_ResourcesRead ==
    \A r \in 1..Len(lines) :
        MethodIs(r, "resources/read") =>
            LET found == Matching(CAPABILITIES.result.resources, "uri",
                                  Wanted(r, "uri"))
            IN  IF found # {}
                THEN \E i \in found :
                        AnsweredLocallyWith(r, "resource",
                                            CAPABILITIES.result.resources[i])
                ELSE WentToForward(r)

C24_Witness ==
    /\ Truthy(env.MCP_MEMORY_TOKEN)
    /\ Len(lines) = 2
    /\ MethodIs(1, "resources/read") /\ Wanted(1, "uri") = JStr("memory://unknown")
    /\ MethodIs(2, "resources/read") /\ Wanted(2, "uri") = JStr("memory://index")
    /\ CallsOf(1) # {} /\ OutOf(1) # {} /\ OutOf(2) # {}

\* the texts of the stdout lines of line r, in the order written
StdoutTexts(r) ==
    LET idx == OutOf(r)
        Nth(n) == CHOOSE i \in idx : Cardinality({j \in idx : j < i}) = n - 1
    IN  [n \in 1..Cardinality(idx) |-> written[Nth(n)].text]

\* what came back for line r: the body, the rejection, or nothing at all
Outcome(r) == {rep.text : rep \in {x \in replies : x.req = r}}

ResultOf(r) == Prop(LineValue(CHOOSE i \in ResponsesOf(r) : TRUE), "result")

\* C26: wherever they come in a run, tools/list, prompts/list,
\* resources/list, resources/templates/list and initialize return the
\* content of the descriptor as it was at the start.
C26_DescriptorNeverMutated ==
    \A r \in 1..Len(lines) :
        /\ MethodIs(r, "tools/list") =>
              Prop(ResultOf(r), "tools") = JArr(CAPABILITIES.result.tools)
        /\ MethodIs(r, "prompts/list") =>
              Prop(ResultOf(r), "prompts") = JArr(CAPABILITIES.result.prompts)
        /\ MethodIs(r, "resources/list") =>
              Prop(ResultOf(r), "resources") = JArr(CAPABILITIES.result.resources)
        /\ MethodIs(r, "resources/templates/list") =>
              Prop(ResultOf(r), "resourceTemplates") =
                  JArr(CAPABILITIES.result.resourceTemplates)
        /\ MethodIs(r, "initialize") =>
              /\ Prop(ResultOf(r), "capabilities") = CAPABILITIES.capabilities
              /\ Prop(ResultOf(r), "serverInfo") = CAPABILITIES.serverInfo

C26_Witness ==
    /\ Len(lines) = 2
    /\ MethodIs(1, "tools/list")
    /\ MethodIs(2, "tools/list")
    /\ ResponsesOf(2) # {}
    /\ Prop(ResultOf(1), "tools") = Prop(ResultOf(2), "tools")

\* C27: every backend call that came back with a body, a relayed one
\* included, left at least one diagnostic on stderr.
C27_EveryCallDiagnosed ==
    \A rep \in replies :
        rep.text.kind # "reject" => ErrOf(rep.req) # {}

\* everything written for line r, in the order written: channel and text
WritesOf(r) ==
    LET idx == {i \in 1..Len(written) : written[i].req = r}
        Nth(n) == CHOOSE i \in idx : Cardinality({j \in idx : j < i}) = n - 1
    IN  [n \in 1..Cardinality(idx) |->
            [chan |-> written[Nth(n)].chan, text |-> written[Nth(n)].text.v]]

\* C28: with the credential set to the empty string, a line that takes the
\* forward route has no backend call and gets exactly what it gets with the
\* variable unset: the FATAL diagnostic on stderr, then the -32000 envelope
\* with the inbound id on stdout, and nothing else.
C28_EmptyCredentialIsMissing ==
    env.MCP_MEMORY_TOKEN = JStr("") =>
        \A r \in 1..Len(lines) :
            IsForwarded(r) =>
                /\ CallsOf(r) = {}
                /\ WritesOf(r) =
                     << [chan |-> "stderr",
                         text |-> JStr("FATAL: MCP_MEMORY_TOKEN is missing in environment")],
                        [chan |-> "stdout",
                         text |-> Stringify(Envelope(InboundId(r), "error",
                                    ErrorObject(-32000,
                                      "MCP_MEMORY_TOKEN is required but missing from environment"))).v] >>

C28_Witness ==
    /\ env.MCP_MEMORY_TOKEN = JStr("")
    /\ \E r \in 1..Len(lines) :
          /\ MethodIs(r, "resources/read")
          /\ InboundId(r) = JNum(2)
          /\ Len(WritesOf(r)) = 2

\* the JSON value or diagnostic v has the string t somewhere in its text
RECURSIVE Mentions(_, _)
Mentions(v, t) ==
    CASE v.k = "string" -> Contains(v.s, t)
      [] v.k = "array"  -> \E i \in 1..Len(v.a) : Mentions(v.a[i], t)
      [] v.k = "object" -> \E i \in 1..Len(v.o) :
                              Contains(v.o[i][1], t) \/ Mentions(v.o[i][2], t)
      [] OTHER          -> FALSE

AdvertisedMethods ==
    {"tools/list", "tools/call", "resources/list", "resources/read",
     "resources/templates/list", "prompts/list", "prompts/get"}

\* C30: the initialize result advertises tools {list, call}, resources
\* {list, read, templates} and prompts {list, get} and names the server
\* "@vheins/memory-mcp", and a line with any of the corresponding methods is
\* never ignored: once its handler has finished it has a stdout line.
C30_AdvertisedAndServed ==
    \A r \in 1..Len(lines) :
        /\ MethodIs(r, "initialize") =>
              LET caps == Prop(ResultOf(r), "capabilities")
                  On(group, op) == Prop(Prop(caps, group), op) = JTrue
              IN  /\ On("tools", "list") /\ On("tools", "call")
                  /\ On("resources", "list") /\ On("resources", "read")
                  /\ On("resources", "templates")
                  /\ On("prompts", "list") /\ On("prompts", "get")
                  /\ Prop(Prop(ResultOf(r), "serverInfo"), "name") =
                        JStr("@vheins/memory-mcp")
        /\ ((\E m \in AdvertisedMethods : MethodIs(r, m)) /\ HandlerDone(r))
              => OutOf(r) # {}

C30_Witness ==
    /\ Len(lines) = 2
    /\ MethodIs(1, "initialize") /\ ResponsesOf(1) # {}
    /\ MethodIs(2, "tools/call") /\ HandlerDone(2) /\ CallsOf(2) # {}
    /\ OutOf(2) # {}

\* the names of the entries of a prompts array value
NamesIn(v) == {Prop(v.a[i], "name") : i \in 1..Len(v.a)}

\* C31: prompts/list gets exactly one stdout line and no backend call: a
\* result whose prompts include memory-agent-core, memory-index-policy and
\* tool-usage-guidelines, carrying the id of the request.
C31_PromptsListLocal ==
    \A r \in 1..Len(lines) :
        MethodIs(r, "prompts/list") =>
            /\ CallsOf(r) = {}
            /\ \E i \in OutOf(r) :
                  /\ OutOf(r) = {i}
                  /\ ~Has(LineValue(i), "error")
                  /\ Prop(LineValue(i), "id") = InboundId(r)
                  /\ {JStr("memory-agent-core"), JStr("memory-index-policy"),
                      JStr("tool-usage-guidelines")}
                        \subseteq NamesIn(Prop(Prop(LineValue(i), "result"), "prompts"))

C31_Witness ==
    /\ Truthy(env.MCP_MEMORY_TOKEN)
    /\ \E r \in 1..Len(lines) :
          /\ MethodIs(r, "prompts/list")
          /\ InboundId(r) = JNum(1)
          /\ \E i \in OutOf(r) : Prop(LineValue(i), "id") = JNum(1)

\* write i is the -32000 envelope of the missing credential
IsMissingTokenEnvelope(i) ==
    /\ written[i].chan = "stdout"
    /\ Prop(ErrorOf(i), "code") = JNum(-32000)

\* C32: every -32000 envelope on stdout is preceded, among the writes of its
\* own request, by the FATAL diagnostic on stderr.
C32_FatalBeforeEnvelope ==
    \A i \in 1..Len(written) :
        IsMissingTokenEnvelope(i) =>
            \E e \in 1..(i - 1) :
                /\ written[e].chan = "stderr"
                /\ written[e].req = written[i].req
                /\ written[e].text.v =
                      JStr("FATAL: MCP_MEMORY_TOKEN is missing in environment")

C32_Witness ==
    /\ env.MCP_MEMORY_TOKEN = Undefined
    /\ Len(lines) = 2
    /\ IsForwarded(1) /\ IsForwarded(2)
    /\ Cardinality({i \in 1..Len(written) : IsMissingTokenEnvelope(i)}) = 2

\* the texts of the stdout writes among a sequence of writes
RECURSIVE StdoutOnly(_)
StdoutOnly(ws) ==
    IF ws = <<>> THEN <<>>
    ELSE IF Head(ws).chan = "stdout"
         THEN <<Head(ws).text>> \o StdoutOnly(Tail(ws))
         ELSE StdoutOnly(Tail(ws))

\* The stdout lines the handler of line r writes when it is looked at on its
\* own: from its line, the environment and what came back for its call,
\* and from nothing else.
ExpectedStdout(r) ==
    IF ParseThrows(lines[r]) \/ PropThrows(Parse(lines[r])) THEN <<>>
    ELSE LET msg == Parse(lines[r])
             id  == Prop(msg, "id")
             d   == Dispatch(r, msg)
         IN  IF d.route = "local" THEN StdoutOnly(d.writes)
             ELSE IF ~Truthy(env.MCP_MEMORY_TOKEN)
                  THEN StdoutOnly(MissingTokenWrites(r, id))
             ELSE IF Outcome(r) = {} THEN <<>>
             ELSE LET text == CHOOSE t \in Outcome(r) : TRUE
                  IN  IF text.kind = "reject"
                      THEN StdoutOnly(InternalErrorWrites(r, id, text.v.s))
                      ELSE StdoutOnly(ReplyWrites(r, id, text))

\* line r ended in one of the failures: an unparsable line, a missing
\* credential, a transport failure, an unparsable backend body
Failed(r) ==
    \/ lines[r] = Garbage
    \/ IsForwarded(r) /\ ~Truthy(env.MCP_MEMORY_TOKEN)
    \/ \E t \in Outcome(r) : t.kind \in {"reject", "garbage"}

\* C33: a line read after a failed line is processed as if the failure had
\* not happened: it has the stdout lines its handler writes on its own, and
\* with a credential a forwarded line has its one backend call.
C33_FailureDoesNotHalt ==
    \A r \in 1..Len(lines) :
        (\E r0 \in 1..(r - 1) : Failed(r0)) =>
            /\ StdoutTexts(r) = ExpectedStdout(r)
            /\ (IsForwarded(r) /\ Truthy(env.MCP_MEMORY_TOKEN))
                  => Cardinality(CallsOf(r)) = 1

C33_Witness ==
    /\ Len(lines) = 2
    /\ MethodIs(1, "tools/call")
    /\ \E t \in Outcome(1) : t.kind = "reject"
    /\ MethodIs(2, "resources/read") /\ InboundId(2) = JNum(2)
    /\ \E t \in Outcome(2) : t.kind = "json"
    /\ Cardinality(OutOf(2)) = 1

\* the route line r was seen to take: the forward shows as a backend call
\* or as the -32000 envelope of the credential gate
ObservedRoute(r) ==
    IF CallsOf(r) # {} \/ \E i \in OutOf(r) : IsMissingTokenEnvelope(i)
    THEN "forward" ELSE "local"

\* the route the method name and the static match alone call for
RouteByMethod(r) ==
    LET method == Prop(Msg(r), "method")
        Match(array, key) == Matching(array, key, Wanted(r, key)) # {}
    IN  IF \/ method \in {JStr("initialize"), JStr("notifications/initialized"),
                          JStr("tools/list"), JStr("resources/templates/list"),
                          JStr("prompts/list"), JStr("resources/list")}
           \/ method = JStr("prompts/get")
                  /\ Match(CAPABILITIES.result.prompts, "name")
           \/ method = JStr("resources/read")
                  /\ Match(CAPABILITIES.result.resources, "uri")
        THEN "local" ELSE "forward"

\* C34: the route of a message (local answer or forward) is the one its
\* method name and, for prompts/get and resources/read, the presence of a
\* static match call for, whatever its id and params, the credential and
\* the lines read before it; two lines agreeing on these take the same route.
C34_DispatchByMethodOnly ==
    \A r \in 1..Len(lines) :
        (IsMessage(r) /\ Has(Msg(r), "method")) =>
            ObservedRoute(r) = RouteByMethod(r)

C34_Witness ==
    /\ ~Truthy(env.MCP_MEMORY_TOKEN)
    /\ Len(lines) = 2
    /\ MethodIs(1, "resources/read") /\ MethodIs(2, "resources/read")
    /\ lines[1] # lines[2]
    /\ ObservedRoute(1) = "forward" /\ ObservedRoute(2) = "forward"

\* the URL the environment configures
ConfiguredUrl ==
    IF env.MCP_MEMORY_URL \in {Undefined, JStr("")}
    THEN "https://agent.idsolutions.id/api/v1/mcp/memory"
    ELSE env.MCP_MEMORY_URL.s

\* C35: every fetch is a POST to the configured URL (the variable's value
\* when set and not empty, else the default) with Content-Type and Accept
\* application/json and Authorization "Bearer " followed by the credential,
\* and the credential is then set and not empty.
C35_OutboundCallShape ==
    \A c \in 1..Len(calls) :
        /\ calls[c].httpMethod = "POST"
        /\ calls[c].url = ConfiguredUrl
        /\ calls[c].headers.ContentType = "application/json"
        /\ calls[c].headers.Accept = "application/json"
        /\ env.MCP_MEMORY_TOKEN \notin {Undefined, JStr("")}
        /\ calls[c].headers.Authorization = "Bearer " \o env.MCP_MEMORY_TOKEN.s

C35_Witness ==
    /\ env.MCP_MEMORY_URL = JStr("")
    /\ env.MCP_MEMORY_TOKEN = JStr("test-token")
    /\ \E c \in 1..Len(calls) :
          /\ calls[c].url = DEFAULT_URL
          /\ calls[c].headers.Authorization = "Bearer test-token"

\* C36: there is no handshake state.  Every initialize, a repeated one
\* included, gets a response line followed by the notifications/initialized
\* line; and every other line has the stdout lines its handler writes on
\* its own, whether or not an initialize was read before it.
C36_NoHandshakeState ==
    \A r \in 1..Len(lines) :
        IF MethodIs(r, "initialize")
        THEN /\ Len(StdoutTexts(r)) = 2
             /\ Has(StdoutTexts(r)[1].v, "result")
             /\ ~Has(StdoutTexts(r)[1].v, "method")
             /\ StdoutTexts(r)[2].v = InitializedNotification
        ELSE StdoutTexts(r) = ExpectedStdout(r)

C36_Witness ==
    /\ Len(lines) = 2
    /\ MethodIs(1, "initialize") /\ MethodIs(2, "initialize")
    /\ Cardinality(OutIdx) = 4

\* C37: however the replies of overlapping calls are ordered, the one stdout
\* line of a request whose call has come back is built from that request's
\* own id and its own reply: it is the line its handler writes on its own.
C37_NoCrossTalk ==
    \A rep \in replies :
        /\ Cardinality(OutOf(rep.req)) = 1
        /\ StdoutTexts(rep.req) = ExpectedStdout(rep.req)
        /\ \A i \in OutOf(rep.req) :
              /\ Prop(LineValue(i), "id") = InboundId(rep.req)
              /\ (IsNonEnvelope(rep) /\ Parse(rep.text) # JNull)
                    => Prop(LineValue(i), "result") = Parse(rep.text)
              /\ IsMatchingEnvelope(rep) => LineValue(i) = Parse(rep.text)

C37_Witness ==
    /\ Len(lines) = 2
    /\ InboundId(1) = JNum(1) /\ InboundId(2) = JNum(2)
    /\ \E i, j \in OutIdx :
          /\ i < j
          /\ written[i].req = 2 /\ written[j].req = 1
          /\ Prop(LineValue(i), "id") = JNum(2)
          /\ Prop(LineValue(j), "id") = JNum(1)
    /\ \E rep1, rep2 \in replies :
          /\ rep1.req = 1 /\ rep2.req = 2
          /\ rep1.text.kind = "json" /\ rep2.text.kind = "json"
          /\ rep1.text # rep2.text

\* C38: the response and the notification of an initialize are adjacent on
\* stdout: no stdout line lies between them.
C38_InitializeLinesAdjacent ==
    \A r \in 1..Len(lines) :
        MethodIs(r, "initialize") =>
            \A i, j \in OutOf(r) :
                i < j => ~\E m \in OutIdx : i < m /\ m < j

C38_Witness ==
    /\ Len(lines) = 2
    /\ IsForwarded(1) /\ CallsOf(1) # {}
    /\ MethodIs(2, "initialize")
    /\ Cardinality(OutOf(2)) = 2
    /\ \E i \in OutOf(1) : \A j \in OutOf(2) : j < i

\* C39: the HTTP status has no part in the output.  A reply with status 401
\* is answered by the body's rule (unparsable: the -32700 envelope; an
\* envelope for the outbound id: relayed as it is; any other value but null:
\* wrapped as the result), and two equal requests answered with the same
\* body under different statuses have identical stdout lines.
C39_StatusIgnored ==
    /\ \A rep \in replies :
          rep.status = 401 =>
              \E i \in OutOf(rep.req) :
                  /\ OutOf(rep.req) = {i}
                  /\ rep.text.kind = "garbage" =>
                        Prop(ErrorOf(i), "code") = JNum(-32700)
                  /\ IsMatchingEnvelope(rep) => written[i].text = rep.text
                  /\ (IsNonEnvelope(rep) /\ Parse(rep.text) # JNull) =>
                        /\ Prop(LineValue(i), "result") = Parse(rep.text)
                        /\ ~Has(LineValue(i), "error")
    /\ \A rep1, rep2 \in replies :
          (/\ lines[rep1.req] = lines[rep2.req]
           /\ rep1.text = rep2.text)
              => StdoutTexts(rep1.req) = StdoutTexts(rep2.req)

C39_Witness ==
    \E rep1, rep2 \in replies :
        /\ rep1.req # rep2.req
        /\ lines[rep1.req] = lines[rep2.req]
        /\ rep1.status = 200 /\ rep2.status = 401
        /\ rep1.text = rep2.text
        /\ rep1.text = JsonText(JArr(<<JNum(7)>>))
        /\ \E i \in OutOf(rep2.req) : Has(LineValue(i), "result")

\* line r is valid JSON but not an object with a method
IsNonRequest(r) ==
    /\ lines[r].kind = "json"
    /\ ~(Parse(lines[r]).k = "object" /\ Has(Parse(lines[r]), "method"))

\* C40: a line that is valid JSON but not an object with a method (null, a
\* number, a string, an array, an object without method) has no backend
\* call and no stdout line.
C40_NonRequestIgnored ==
    \A r \in 1..Len(lines) :
        IsNonRequest(r) => CallsOf(r) = {} /\ OutOf(r) = {}

====
